---- MODULE Spec2Model ----
(***************************************************************************)
(* Realtime voice agent front end: the playback queue (useAudioPlayer),    *)
(* the capture pipeline (useAudioRecorder) with its resampler and base64   *)
(* encoder, and the session wiring of App and AgentSelector.               *)
(*                                                                         *)
(* A base64 text is a sequence of one-character strings.  A drain loop is  *)
(* one suspended invocation of processAudioQueue, awaiting the onended     *)
(* event of the AudioBufferSourceNode it started.                          *)
(***************************************************************************)
EXTENDS Integers, Sequences, FiniteSets, TLC

\* ------------------------------------------------------------------ bounds
\* Chunks handed to playAudio in one run.
MaxChunks == 3
\* Messages the server sends in one run, and how many may be in flight.
MaxMsgs == 2
MaxInbox == 2
MaxEvents == 3
MaxTranscript == 4
\* Calls of startRecording, and capture frames, in one run.
MaxStarts == 2
MaxFrames == 2
\* Samples in a frame handed to the resampler.
MaxFrameLen == 7
\* Samples in a frame whose values are followed through the encoder.
MaxSamples == 3
\* Bytes in a buffer handed to the base64 encoder, and the encoder's chunk
\* size (8192 in the source), scaled so that a buffer spans several chunks.
MaxBytes == 5
chunkSize == 2

\* ------------------------------------------------------------- PCM codec
B64Chars ==
  << "A","B","C","D","E","F","G","H","I","J","K","L","M","N","O","P",
     "Q","R","S","T","U","V","W","X","Y","Z","a","b","c","d","e","f",
     "g","h","i","j","k","l","m","n","o","p","q","r","s","t","u","v",
     "w","x","y","z","0","1","2","3","4","5","6","7","8","9","+","/" >>

B64Set == { B64Chars[i] : i \in 1..64 }

B64Val(c) == (CHOOSE i \in 1..64 : B64Chars[i] = c) - 1

AsciiWhitespace == { " ", "\t", "\n", "\f", "\r" }

NotWhitespace(c) == c \notin AsciiWhitespace

\* atob, step 2: with a length divisible by 4, one or two trailing "=" go.
StripPadding(s) ==
  IF Len(s) > 0 /\ Len(s) % 4 = 0 /\ s[Len(s)] = "="
  THEN IF s[Len(s) - 1] = "="
       THEN SubSeq(s, 1, Len(s) - 2)
       ELSE SubSeq(s, 1, Len(s) - 1)
  ELSE s

RECURSIVE B64Groups(_)
B64Groups(u) ==
  IF Len(u) >= 4
  THEN LET n == B64Val(u[1]) * 262144 + B64Val(u[2]) * 4096
                + B64Val(u[3]) * 64 + B64Val(u[4])
       IN  << n \div 65536, (n \div 256) % 256, n % 256 >>
             \o B64Groups(SubSeq(u, 5, Len(u)))
  ELSE IF Len(u) = 3
  THEN LET n == (B64Val(u[1]) * 4096 + B64Val(u[2]) * 64 + B64Val(u[3])) \div 4
       IN  << n \div 256, n % 256 >>
  ELSE IF Len(u) = 2
  THEN << (B64Val(u[1]) * 64 + B64Val(u[2])) \div 16 >>
  ELSE << >>

\* atob(text): the bytes, or not ok (InvalidCharacterError).
atob(text) ==
  LET u == StripPadding(SelectSeq(text, NotWhitespace))
  IN  IF Len(u) % 4 = 1 \/ (\E i \in 1..Len(u) : u[i] \notin B64Set)
      THEN [ok |-> FALSE, bytes |-> << >>]
      ELSE [ok |-> TRUE, bytes |-> B64Groups(u)]

\* new Int16Array(bytes.buffer): little-endian pairs, two's complement.
Int16At(bytes, i) ==
  LET w == bytes[2 * i - 1] + 256 * bytes[2 * i]
  IN  IF w >= 32768 THEN w - 65536 ELSE w

\* The decoding half of playAudio (the try block up to the push): the
\* samples of the segment, or not ok (atob threw, or the byte length is odd
\* and the Int16Array constructor threw RangeError).  The Float32 value of a
\* sample is pcm[i] / 32768 or pcm[i] / 32767 by sign; the segment keeps the
\* integer it is computed from.
DecodeChunk(base64Audio) ==
  LET b == atob(base64Audio)
  IN  IF ~b.ok \/ Len(b.bytes) % 2 # 0
      THEN [ok |-> FALSE, pcm |-> << >>]
      ELSE [ok |-> TRUE,
            pcm |-> [i \in 1..(Len(b.bytes) \div 2) |-> Int16At(b.bytes, i)]]

\* Non-empty delta texts a server or caller may hand over: whitespace only
\* (decodes to zero samples), a text of invalid length, three bytes (odd
\* byte length), and two well-formed segments.
Deltas ==
  { << " " >>,
    << "A" >>,
    << "A", "A", "A", "A" >>,
    << "A", "Q", "A", "=" >>,
    << "/", "/", "8", "A", "g", "A", "=", "=" >> }

\* btoa(binary): binary is a sequence of character codes 0..255.
RECURSIVE btoa(_)
btoa(binary) ==
  LET c(v) == B64Chars[v + 1]
      n == Len(binary)
  IN  IF n = 0 THEN << >>
      ELSE IF n = 1
      THEN << c(binary[1] \div 4), c((binary[1] % 4) * 16), "=", "=" >>
      ELSE IF n = 2
      THEN << c(binary[1] \div 4),
              c((binary[1] % 4) * 16 + binary[2] \div 16),
              c((binary[2] % 16) * 4), "=" >>
      ELSE << c(binary[1] \div 4),
              c((binary[1] % 4) * 16 + binary[2] \div 16),
              c((binary[2] % 16) * 4 + binary[3] \div 64),
              c(binary[3] % 64) >> \o btoa(SubSeq(binary, 4, n))

\* String.fromCharCode.apply(null, chunk): one code unit per element.
fromCharCode(chunk) == [i \in 1..Len(chunk) |-> chunk[i] % 65536]

\* bytes.subarray(i, end), i and end counted from 0.
subarray(bytes, i, end) == SubSeq(bytes, i + 1, end)

\* The loop of arrayBufferToBase64 from index i on: binary grows by one
\* chunk per turn.
RECURSIVE ChunkLoop(_, _, _)
ChunkLoop(bytes, i, binary) ==
  IF i < Len(bytes)
  THEN LET end == IF i + chunkSize < Len(bytes) THEN i + chunkSize ELSE Len(bytes)
       IN  ChunkLoop(bytes, i + chunkSize,
                     binary \o fromCharCode(subarray(bytes, i, end)))
  ELSE binary

\* arrayBufferToBase64 with btoa applied to every chunk and the texts joined.
RECURSIVE arrayBufferToBase64EachChunk(_)
arrayBufferToBase64EachChunk(buffer) ==
  IF Len(buffer) = 0 THEN << >>
  ELSE LET end == IF chunkSize < Len(buffer) THEN chunkSize ELSE Len(buffer)
       IN  btoa(fromCharCode(subarray(buffer, 0, end)))
             \o arrayBufferToBase64EachChunk(SubSeq(buffer, end + 1, Len(buffer)))

\* arrayBufferToBase64(buffer)
arrayBufferToBase64(buffer) == btoa(ChunkLoop(buffer, 0, << >>))

\* Byte values and the buffers handed to the encoder.
ByteValues == { 0, 1, 128, 255 }

RECURSIVE SeqsUpTo(_, _)
SeqsUpTo(S, n) ==
  IF n = 0 THEN { << >> }
  ELSE LET shorter == SeqsUpTo(S, n - 1)
       IN  shorter \cup { Append(q, v) : q \in shorter, v \in S }

Buffers == SeqsUpTo(ByteValues, MaxBytes)

\* ------------------------------------------------------------- resampler
TARGET_SAMPLE_RATE == 24000

\* Number arithmetic of the resampler's length: IEEE 754 binary64, positive
\* numbers.  A significand of 53 bits is held in two limbs, hi * 2^27 + lo.
Limb == 134217728

Big(hi, lo) == [hi |-> hi, lo |-> lo]

BigDouble(x) ==
  Big(2 * x.hi + (x.lo \div (Limb \div 2)), 2 * (x.lo % (Limb \div 2)))

BigHalf(x) == Big(x.hi \div 2, (x.hi % 2) * (Limb \div 2) + (x.lo \div 2))

BigGeq(x, y) == x.hi > y.hi \/ (x.hi = y.hi /\ x.lo >= y.lo)

BigSub(x, y) ==
  IF x.lo >= y.lo
  THEN Big(x.hi - y.hi, x.lo - y.lo)
  ELSE Big(x.hi - y.hi - 1, x.lo + Limb - y.lo)

BigInc(x) == IF x.lo + 1 = Limb THEN Big(x.hi + 1, 0) ELSE Big(x.hi, x.lo + 1)

\* 2^52 and 2^53: a normal significand m has Two52 <= m < Two53.
Two52 == Big(Limb \div 4, 0)
Two53 == Big(Limb \div 2, 0)

\* The double m * 2^e with m made a normal significand.
RECURSIVE Normalize(_, _)
Normalize(m, e) ==
  IF BigGeq(m, Two52) THEN [m |-> m, e |-> e] ELSE Normalize(BigDouble(m), e - 1)

\* The double of a positive integer below 2^27 (exact).
ToDouble(n) == Normalize(Big(0, n), 0)

\* Long division: s holds the quotient bits so far (q) and the remainder
\* (r, r < d); k more bits are to be produced.
RECURSIVE DivSteps(_, _, _)
DivSteps(s, d, k) ==
  IF k = 0 THEN s
  ELSE IF BigGeq(BigDouble(s.r), d)
       THEN DivSteps([q |-> BigInc(BigDouble(s.q)),
                      r |-> BigSub(BigDouble(s.r), d)], d, k - 1)
       ELSE DivSteps([q |-> BigDouble(s.q), r |-> BigDouble(s.r)], d, k - 1)

\* Round to nearest, ties to even: m the truncated significand, guard the
\* next bit, sticky whether anything non-zero follows it.
RoundNearestEven(m, e, guard, sticky) ==
  LET up == guard /\ (sticky \/ m.lo % 2 = 1)
      m1 == IF up THEN BigInc(m) ELSE m
  IN  IF BigGeq(m1, Two53) THEN [m |-> BigHalf(m1), e |-> e + 1]
      ELSE [m |-> m1, e |-> e]

\* x / y on doubles, correctly rounded.
DoubleDiv(x, y) ==
  LET first == BigGeq(x.m, y.m)
      r0 == IF first THEN BigSub(x.m, y.m) ELSE x.m
      d == DivSteps([q |-> IF first THEN Big(0, 1) ELSE Big(0, 0), r |-> r0],
                    y.m, IF first THEN 52 ELSE 53)
      g == DivSteps([q |-> Big(0, 0), r |-> d.r], y.m, 1)
      e == IF first THEN x.e - y.e - 52 ELSE x.e - y.e - 53
  IN  RoundNearestEven(d.q, e, g.q.lo = 1, g.r # Big(0, 0))

\* The significand shifted right until its last bit weighs one half.
RECURSIVE RoundShift(_, _)
RoundShift(m, e) ==
  IF e >= -1 \/ m = Big(0, 0) THEN m ELSE RoundShift(BigHalf(m), e + 1)

\* Math.round of a positive double below 2^26: the integer part, plus one
\* when the fraction is one half or more.
MathRound(x) ==
  LET t == RoundShift(x.m, x.e) IN (t.hi * Limb + t.lo + 1) \div 2

\* Lines 127-128 of resampleAndConvert: ratio and newLength.
newLength(length, fromRate, toRate) ==
  IF length = 0 THEN 0
  ELSE LET ratio == DoubleDiv(ToDouble(fromRate), ToDouble(toRate))
       IN  MathRound(DoubleDiv(ToDouble(length), ratio))

BigAdd(x, y) ==
  IF x.lo + y.lo >= Limb
  THEN Big(x.hi + y.hi + 1, x.lo + y.lo - Limb)
  ELSE Big(x.hi + y.hi, x.lo + y.lo)

\* k * x for an integer 0 <= k < 32 (the product stays below 2^58).
RECURSIVE MulSmall(_, _)
MulSmall(x, k) ==
  IF k = 0 THEN Big(0, 0)
  ELSE IF k % 2 = 1 THEN BigAdd(BigDouble(MulSmall(x, k \div 2)), x)
       ELSE BigDouble(MulSmall(x, k \div 2))

\* The exact product p * 2^e rounded to a double: bits are shifted out
\* until 53 remain, the last one out is the guard bit.
RECURSIVE MulRound(_, _, _, _)
MulRound(p, e, guard, sticky) ==
  IF BigGeq(p, Two53)
  THEN MulRound(BigHalf(p), e + 1, p.lo % 2 = 1, guard \/ sticky)
  ELSE RoundNearestEven(p, e, guard, sticky)

\* i * x for an integer 1 <= i < 32 and a double x, correctly rounded.
DoubleMulInt(i, x) == MulRound(MulSmall(x.m, i), x.e, FALSE, FALSE)

\* The significand shifted right until its last bit weighs one.
RECURSIVE FloorShift(_, _)
FloorShift(m, e) ==
  IF e >= 0 \/ m = Big(0, 0) THEN m ELSE FloorShift(BigHalf(m), e + 1)

\* Math.floor of a positive double below 2^26.
MathFloor(x) == LET t == FloorShift(x.m, x.e) IN t.hi * Limb + t.lo

\* Line 127 of resampleAndConvert.
ratio(fromRate, toRate) == DoubleDiv(ToDouble(fromRate), ToDouble(toRate))

\* Lines 133-134: srcFloor of output index i; i * ratio is zero for i = 0.
srcFloor(i, fromRate, toRate) ==
  IF i = 0 THEN 0 ELSE MathFloor(DoubleMulInt(i, ratio(fromRate, toRate)))

\* Line 135 without Math.min: the sample after srcFloor, wherever it lies.
srcCeilUnclamped(floor, length) == floor + 1

\* Line 135: srcCeil, Math.min(srcFloor + 1, float32Array.length - 1).
srcCeil(floor, length) ==
  IF floor + 1 < length - 1 THEN floor + 1 ELSE length - 1

\* The indices of float32Array that resampleAndConvert reads, one pair for
\* each output index.
SourceReads(length, fromRate, toRate) ==
  [ k \in 1..newLength(length, fromRate, toRate) |->
      LET f == srcFloor(k - 1, fromRate, toRate)
      IN  [floor |-> f, ceil |-> srcCeil(f, length)] ]

\* Sample values are held as integers in units of 1 / SampleUnit, and an
\* interpolated sample in units of 1 / (SampleUnit * den), den the
\* denominator of frac.  On such values, with frac of a few bits, binary64
\* computes the products and sums below exactly.
SampleUnit == 4

\* The fraction of a positive double as num / den, den a power of two, in
\* lowest terms: the bits of weight below one, from the lowest one up.
RECURSIVE FracShift(_, _, _, _)
FracShift(m, e, num, den) ==
  IF e >= 0 THEN [num |-> num, den |-> den]
  ELSE IF m.lo % 2 = 0 /\ num = 0
       THEN FracShift(BigHalf(m), e + 1, 0, 1)
       ELSE FracShift(BigHalf(m), e + 1, num + (m.lo % 2) * den, 2 * den)

\* Line 136: frac = srcIndex - srcFloor of output index i.
frac(i, fromRate, toRate) ==
  IF i = 0 THEN [num |-> 0, den |-> 1]
  ELSE LET srcIndex == DoubleMulInt(i, ratio(fromRate, toRate))
       IN  FracShift(srcIndex.m, srcIndex.e, 0, 1)

\* The interpolation taking the sample at srcCeil alone.
sampleAtCeil(x, y, fr) == y * fr.den

\* Line 137: float32Array[srcFloor] * (1 - frac) + float32Array[srcCeil] * frac,
\* x and y being the two samples read.
sample(x, y, fr) == x * (fr.den - fr.num) + y * fr.num

\* Lines 120-121 and 139-140: the sample v / (SampleUnit * den) clamped to
\* [-1, 1], scaled by 0x8000 or 0x7FFF and stored in an Int16Array, which
\* drops the fraction and wraps to 16 bits.
Int16Of(v, den) ==
  LET one == SampleUnit * den
      s == IF v < -one THEN -one ELSE IF v > one THEN one ELSE v
      n == IF s < 0 THEN -((-s * 32768) \div one) ELSE (s * 32767) \div one
  IN  ((n + 32768) % 65536) - 32768

\* floatTo16BitPCM(float32Array)
floatTo16BitPCM(float32Array) ==
  [ k \in 1..Len(float32Array) |-> Int16Of(float32Array[k], 1) ]

\* resampleAndConvert(float32Array, fromRate, toRate)
resampleAndConvert(float32Array, fromRate, toRate) ==
  [ k \in 1..newLength(Len(float32Array), fromRate, toRate) |->
      LET f == srcFloor(k - 1, fromRate, toRate)
          c == srcCeil(f, Len(float32Array))
          fr == frac(k - 1, fromRate, toRate)
      IN  Int16Of(sample(float32Array[f + 1], float32Array[c + 1], fr), fr.den) ]

\* Sample values of a frame: in and beyond [-1, 1], finite.
SampleValues == { -5, -2, 0, 1, 5 }

\* Rates an AudioContext may report.
SampleRates == { 8000, 13440, 16000, 22050, 24000, 32000, 44100, 48000 }

\* ------------------------------------------------------------------ state
Agents == { "general_assistant", "technical_expert" }

VARIABLES
  \* useAudioPlayer
  audioQueueRef,     \* backlog: sequence of segments [id, pcm, resp]
  isProcessingRef,
  currentSourceRef,  \* id of the source node, 0 for null
  isPlaying,
  drains,            \* suspended drain loops: [src, resp, st], st playing | ended
  nextId,            \* segments pushed so far (the next segment is nextId+1)
  \* history of the player
  pushed,            \* the segments pushed, in order: [id, samples]
  started,           \* ids of the segments whose source was started, in order
  discarded,         \* ids of the segments a flush removed from the backlog
  flushed,           \* stopAudio has run at least once
  \* useWebSocket and the App's session state
  ws,                \* closed | connecting | open
  inbox,             \* server -> client messages in flight
  lastMessage,       \* the hook's lastMessage state
  effectPending,     \* lastMessage changed since the message effect last ran
  pendingAgentRef,   \* agent id, "" for null
  currentAgent,      \* agent id, "" for null
  isSpeaking,
  msgCount,          \* messages the server has sent
  serverResp,        \* number of the response the server's next audio_delta belongs to
  cancelledUpTo,     \* responses numbered up to this were cancelled by the client
  deltasOwed,        \* non-empty audio_delta messages received, less those handled
  doneSinceDelta,    \* a response.done was received since an audio_delta was last handled
  conversation,      \* the conversation log: sequence of [role, content, agent]
  deltasHandled,     \* the transcript deltas handled since the log was last cleared, joined
  requested,         \* the agent id last passed to handleConnectAgent, "" for none
  \* useAudioRecorder and the App's recording state
  pendingOpens,      \* getUserMedia calls not yet settled
  subs,              \* live subscriptions (stream open, processor connected)
  mediaStreamRef,    \* subscription id, 0 for null (as the next three)
  audioContextRef,
  sourceRef,
  processorRef,
  hasAudioDataRef,
  recIsRecording,    \* the hook's isRecording state
  isRecording,       \* the App's isRecording state
  nextSub,           \* subscriptions opened so far
  startCount,        \* calls of startRecording so far
  frameCount,        \* capture frames handled so far
  dirty,             \* a frame arrived since the last commit_audio or bind/switch
  lastCommitDirty,   \* dirty, as it was when the last commit_audio was sent
  stopped,           \* stopRecording has returned and startRecording was not called since
  lastFailAt,        \* startCount when getUserMedia last rejected, 0 if it never did
  \* the capture codec: one frame through the resampler, one buffer through
  \* the base64 encoder and back
  inputLength,       \* float32Array.length of the frame
  sampleRate,        \* audioContext.sampleRate
  pcmLength,         \* pcmData.length
  srcReads,          \* the [floor, ceil] indices the interpolation read
  inputData,         \* the frame's samples, in units of 1 / SampleUnit
  pcmData,           \* the Int16 values onaudioprocess made of the frame
  resampled,         \* [rate, data]: resampleAndConvert of the frame at equal rates
  pcmBuffer,         \* the bytes handed to arrayBufferToBase64
  base64,            \* the text it returned
  decodedBytes,      \* the bytes the player's decode read from that text
  \* the refs a capture frame goes through
  onAudioDataRef,    \* the callback the recorder's ref holds, "" for none
  isConnectedRef,    \* the App's copy of isConnected
  statusAtStart,     \* ws when the newest subscription was opened, "" if none was
  \* what the last step was, and what it handed to sendMessage
  op,
  sent

playerVars ==
  << audioQueueRef, isProcessingRef, currentSourceRef, isPlaying, drains,
     nextId, pushed, started, discarded, flushed >>

sessionVars ==
  << ws, inbox, lastMessage, effectPending, pendingAgentRef, currentAgent,
     isSpeaking, msgCount, serverResp, cancelledUpTo, deltasOwed,
     doneSinceDelta, conversation, deltasHandled, requested >>

recorderVars ==
  << pendingOpens, subs, mediaStreamRef, audioContextRef, sourceRef,
     processorRef, hasAudioDataRef, recIsRecording, isRecording, nextSub,
     startCount, frameCount, dirty, lastCommitDirty, stopped, lastFailAt >>

codecVars ==
  << inputLength, sampleRate, pcmLength, srcReads, inputData, pcmData,
     resampled, pcmBuffer, base64, decodedBytes >>

refVars == << onAudioDataRef, isConnectedRef, statusAtStart >>

vars ==
  << playerVars, sessionVars, recorderVars, codecVars, refVars, op, sent >>

\* A message: its type, its text in delta (the delta of an audio_delta or
\* transcript_delta, the transcript of a user_transcript, the error text of
\* an error, << >> when it carries none; of an openai_event: the event's type,
\* followed by its transcript if it has one), the agent of a connect/switch
\* request or confirmation, and n, the number of the response (audio_delta)
\* or of the capture frame (audio) it belongs to.
Msg(type, delta, agent, n) ==
  [type |-> type, delta |-> delta, agent |-> agent, n |-> n]

NoMessage == Msg("none", << >>, "", 0)

\* The hooks and the App after their first render.
AppInit ==
  /\ audioQueueRef = << >>
  /\ isProcessingRef = FALSE
  /\ currentSourceRef = 0
  /\ isPlaying = FALSE
  /\ drains = {}
  /\ nextId = 0
  /\ pushed = << >>
  /\ started = << >>
  /\ discarded = {}
  /\ flushed = FALSE
  /\ ws = "closed"
  /\ inbox = << >>
  /\ lastMessage = NoMessage
  /\ effectPending = FALSE
  /\ pendingAgentRef = ""
  /\ currentAgent = ""
  /\ isSpeaking = FALSE
  /\ msgCount = 0
  /\ serverResp = 1
  /\ cancelledUpTo = 0
  /\ deltasOwed = 0
  /\ doneSinceDelta = FALSE
  /\ conversation = << >>
  /\ deltasHandled = << >>
  /\ requested = ""
  /\ pendingOpens = 0
  /\ subs = {}
  /\ mediaStreamRef = 0
  /\ audioContextRef = 0
  /\ sourceRef = 0
  /\ processorRef = 0
  /\ hasAudioDataRef = FALSE
  /\ recIsRecording = FALSE
  /\ isRecording = FALSE
  /\ nextSub = 0
  /\ startCount = 0
  /\ frameCount = 0
  /\ dirty = FALSE
  /\ lastCommitDirty = TRUE
  /\ stopped = FALSE
  /\ lastFailAt = 0
  /\ onAudioDataRef = "handleAudioData"
  /\ isConnectedRef = FALSE
  /\ statusAtStart = ""
  /\ op = "init"
  /\ sent = << >>

\* No frame and no buffer are in the codec.
CodecIdle ==
  /\ inputLength = 0
  /\ sampleRate = TARGET_SAMPLE_RATE
  /\ pcmLength = 0
  /\ srcReads = << >>
  /\ inputData = << >>
  /\ pcmData = << >>
  /\ resampled = [rate |-> 0, data |-> << >>]
  /\ pcmBuffer = << >>
  /\ base64 = << >>
  /\ decodedBytes = [ok |-> TRUE, bytes |-> << >>]

Init == AppInit /\ CodecIdle

\* --------------------------------------------------------- useAudioPlayer
Rendering == { d \in drains : d.st = "playing" }

\* The while loop of processAudioQueue from its condition on, with backlog q,
\* the other suspended loops ds, and the values isProcessingRef and isPlaying
\* keep unless the loop runs to its end.  It stops at the first await (a
\* source started), at the exit (backlog empty), or when createBuffer throws
\* NotSupportedError for a segment of zero samples: the async function then
\* rejects and nothing after the loop runs.
DrainLoop(q, ds, proc, playing) ==
  IF q = << >>
  THEN /\ audioQueueRef' = q
       /\ isProcessingRef' = FALSE
       /\ currentSourceRef' = 0
       /\ isPlaying' = FALSE
       /\ drains' = ds
       /\ started' = started
  ELSE IF Len(Head(q).pcm) = 0
  THEN /\ audioQueueRef' = Tail(q)
       /\ isProcessingRef' = proc
       /\ currentSourceRef' = currentSourceRef
       /\ isPlaying' = playing
       /\ drains' = ds
       /\ started' = started
  ELSE /\ audioQueueRef' = Tail(q)
       /\ isProcessingRef' = proc
       /\ currentSourceRef' = Head(q).id
       /\ isPlaying' = playing
       /\ drains' = ds \cup { [src |-> Head(q).id, resp |-> Head(q).resp,
                               st |-> "playing"] }
       /\ started' = Append(started, Head(q).id)

\* processAudioQueue(audioContext), up to its first suspension.
processAudioQueue(q) == DrainLoop(q, drains, TRUE, TRUE)

\* playAudio with setIsPlaying(true) placed after the try block, so that it
\* runs when the decode failed as well.
playAudioPlayingAfterCatch(base64Audio, resp) ==
  LET d == DecodeChunk(base64Audio)
      seg == [id |-> nextId + 1, pcm |-> d.pcm, resp |-> resp]
      q == Append(audioQueueRef, seg)
  IN  IF ~d.ok
      THEN /\ isPlaying' = TRUE
           /\ UNCHANGED << audioQueueRef, isProcessingRef, currentSourceRef,
                           drains, nextId, pushed, started, discarded,
                           flushed >>
      ELSE /\ nextId' = nextId + 1
           /\ pushed' = Append(pushed, [id |-> seg.id, samples |-> Len(seg.pcm)])
           /\ IF ~isProcessingRef
              THEN processAudioQueue(q)
              ELSE /\ audioQueueRef' = q
                   /\ isPlaying' = TRUE
                   /\ UNCHANGED << isProcessingRef, currentSourceRef, drains,
                                   started >>
           /\ UNCHANGED << discarded, flushed >>

\* playAudio(base64Audio); resp is the response the chunk belongs to.
playAudio(base64Audio, resp) ==
  LET d == DecodeChunk(base64Audio)
      seg == [id |-> nextId + 1, pcm |-> d.pcm, resp |-> resp]
      q == Append(audioQueueRef, seg)
  IN  IF ~d.ok
      THEN UNCHANGED playerVars
      ELSE /\ nextId' = nextId + 1
           /\ pushed' = Append(pushed, [id |-> seg.id, samples |-> Len(seg.pcm)])
           /\ IF ~isProcessingRef
              THEN processAudioQueue(q)
              ELSE /\ audioQueueRef' = q
                   /\ isPlaying' = TRUE
                   /\ UNCHANGED << isProcessingRef, currentSourceRef, drains,
                                   started >>
           /\ UNCHANGED << discarded, flushed >>

\* source.stop() on the source node with id s: a playing source stops and its
\* ended event is queued; on any other the call changes nothing (an
\* InvalidStateError, if thrown, is caught).
StopSource(s, ds) ==
  { IF d.src = s /\ d.st = "playing" THEN [d EXCEPT !.st = "ended"] ELSE d
      : d \in ds }

\* stopAudio()
stopAudio ==
  /\ drains' = IF currentSourceRef # 0
               THEN StopSource(currentSourceRef, drains)
               ELSE drains
  /\ currentSourceRef' = 0
  /\ discarded' = discarded \cup { audioQueueRef[i].id : i \in 1..Len(audioQueueRef) }
  /\ audioQueueRef' = << >>
  /\ isProcessingRef' = FALSE
  /\ isPlaying' = FALSE
  /\ flushed' = TRUE
  /\ UNCHANGED << nextId, pushed, started >>

\* The output device finishes rendering the source of drain loop d.
SourceFinish(d) ==
  /\ d \in drains
  /\ d.st = "playing"
  /\ drains' = (drains \ {d}) \cup { [d EXCEPT !.st = "ended"] }
  /\ op' = "finish"
  /\ UNCHANGED << codecVars, refVars >>
  /\ sent' = << >>
  /\ UNCHANGED << audioQueueRef, isProcessingRef, currentSourceRef, isPlaying,
                  nextId, pushed, started, discarded, flushed >>
  /\ UNCHANGED << sessionVars, recorderVars >>

\* source.onended fires for drain loop d: the promise resolves and the loop
\* goes on from its while condition.
OnEnded(d) ==
  /\ d \in drains
  /\ d.st = "ended"
  /\ DrainLoop(audioQueueRef, drains \ {d}, isProcessingRef, isPlaying)
  /\ op' = "onended"
  /\ UNCHANGED << codecVars, refVars >>
  /\ sent' = << >>
  /\ UNCHANGED << nextId, pushed, discarded, flushed >>
  /\ UNCHANGED << sessionVars, recorderVars >>

\* The hook driven directly by a caller: playAudio and stopAudio at any time.
PlayAudioCall(c) ==
  /\ nextId < MaxChunks
  /\ playAudio(c, 0)
  /\ op' = IF DecodeChunk(c).ok THEN "playAudio" ELSE "playAudioDropped"
  /\ UNCHANGED << codecVars, refVars >>
  /\ sent' = << >>
  /\ UNCHANGED << sessionVars, recorderVars >>

StopAudioCall ==
  /\ stopAudio
  /\ op' = "stopAudio"
  /\ UNCHANGED << codecVars, refVars >>
  /\ sent' = << >>
  /\ UNCHANGED << sessionVars, recorderVars >>

PlayerNext ==
  \/ \E c \in Deltas : PlayAudioCall(c)
  \/ StopAudioCall
  \/ \E d \in drains : SourceFinish(d)
  \/ \E d \in drains : OnEnded(d)

PlayerSpec == Init /\ [][PlayerNext]_vars

\* ------------------------------------------------------------ useWebSocket
isConnected == ws = "open"

\* connect(): opens the transport unless it is open or opening.
connect == ws' = IF ws = "closed" THEN "connecting" ELSE ws

\* sendMessage(msg): hands msg to the transport.
sendMessage(msg) == sent' = << msg >>

\* ---------------------------------------------------------------- App
\* A render that leaves the refs as useRef initialised them.
AppRenderInitialRefs == UNCHANGED refVars

\* The App's body on a render after isConnected changed: it copies
\* isConnected (and sendMessage) into its refs and calls useAudioRecorder
\* with the memoised handleAudioData, which the hook's body stores in
\* onAudioDataRef.  Renders on other state changes assign the same values.
AppRender ==
  /\ isConnectedRef' = (ws' = "open")
  /\ onAudioDataRef' = "handleAudioData"
  /\ UNCHANGED statusAtStart

\* The effect on [isConnected]: sends the pending connect_agent once open.
PendingAgentEffect(connected) ==
  IF connected /\ pendingAgentRef # ""
  THEN /\ sendMessage(Msg("connect_agent", << >>, pendingAgentRef, 0))
       /\ pendingAgentRef' = ""
  ELSE /\ sent' = << >>
       /\ pendingAgentRef' = pendingAgentRef

\* The transport opens: isConnected becomes true and the effect on it runs.
WsOpen ==
  /\ ws = "connecting"
  /\ ws' = "open"
  /\ PendingAgentEffect(TRUE)
  /\ op' = "open"
  /\ AppRender
  /\ UNCHANGED codecVars
  /\ UNCHANGED << inbox, lastMessage, effectPending, currentAgent, isSpeaking,
                  msgCount, serverResp, cancelledUpTo, deltasOwed,
                  doneSinceDelta, conversation, deltasHandled, requested >>
  /\ UNCHANGED << playerVars, recorderVars >>

\* The transport drops or fails to open: isConnected becomes false; what was
\* in flight is lost.  Nothing in App runs on it but the effect on
\* [isConnected], which does nothing when not connected.
WsClose ==
  /\ ws # "closed"
  /\ ws' = "closed"
  /\ inbox' = << >>
  /\ PendingAgentEffect(FALSE)
  /\ op' = "close"
  /\ AppRender
  /\ UNCHANGED codecVars
  /\ UNCHANGED << lastMessage, effectPending, currentAgent, isSpeaking,
                  msgCount, serverResp, cancelledUpTo, deltasOwed,
                  doneSinceDelta, conversation, deltasHandled, requested >>
  /\ UNCHANGED << playerVars, recorderVars >>

\* What the server may send over an open transport.
ServerMessages ==
  { Msg("connected", << >>, a, 0) : a \in Agents }
    \cup { Msg("agent_switched", << >>, a, 0) : a \in Agents }
    \cup { Msg("audio_delta", c, "", serverResp) : c \in Deltas \cup { << >> } }
    \cup { Msg("openai_event", << "response.done" >>, "", serverResp) }
    \cup { Msg("error", e, "", 0) : e \in { << >>, << "boom" >> } }

\* An openai_event whose event is response.done.
IsResponseDone(m) == m.type = "openai_event" /\ m.delta = << "response.done" >>

\* The server sends m, the server having sent fewer than max messages; a
\* response.done ends the response the server was streaming.
ServerSendUpTo(m, max) ==
  /\ ws = "open"
  /\ msgCount < max
  /\ Len(inbox) < MaxInbox
  /\ inbox' = Append(inbox, m)
  /\ msgCount' = msgCount + 1
  /\ serverResp' = IF IsResponseDone(m) THEN serverResp + 1 ELSE serverResp
  /\ op' = "send"
  /\ UNCHANGED << codecVars, refVars >>
  /\ sent' = << >>
  /\ UNCHANGED << ws, lastMessage, effectPending, pendingAgentRef,
                  currentAgent, isSpeaking, cancelledUpTo, deltasOwed,
                  doneSinceDelta, conversation, deltasHandled, requested >>
  /\ UNCHANGED << playerVars, recorderVars >>

ServerSend(m) == ServerSendUpTo(m, MaxMsgs)

\* What the server sends while it streams a response and ends it.
ResponseMessages ==
  { m \in ServerMessages : m.type \in { "audio_delta", "openai_event", "error" } }

\* Texts of the transcript deltas of a response.
TranscriptDeltas == { << "he" >>, << "llo" >> }

\* What the server sends about the transcript of a turn: the response's
\* text in chunks, the user's item and its recognised text.
TranscriptMessages ==
  { Msg("transcript_delta", d, "", 0) : d \in TranscriptDeltas \cup { << >> } }
    \cup { Msg("user_transcript", << "hi" >>, "", 0) }
    \cup { Msg("openai_event", << "conversation.item.created" >>, "", 0) }
    \cup { Msg("openai_event",
               << "conversation.item.input_audio_transcription.completed",
                  " ", "hi", " " >>, "", 0) }

\* An audio_delta whose delta is a non-empty text.
IsAudioDelta(m) == m.type = "audio_delta" /\ m.delta # << >>

\* The socket's onmessage: the hook stores the parsed message in lastMessage.
WsOnMessage ==
  /\ ws = "open"
  /\ inbox # << >>
  /\ lastMessage' = Head(inbox)
  /\ inbox' = Tail(inbox)
  /\ effectPending' = TRUE
  /\ deltasOwed' = IF IsAudioDelta(Head(inbox)) THEN deltasOwed + 1 ELSE deltasOwed
  /\ doneSinceDelta' = (doneSinceDelta \/ IsResponseDone(Head(inbox)))
  /\ op' = "onmessage"
  /\ UNCHANGED << codecVars, refVars >>
  /\ sent' = << >>
  /\ UNCHANGED << ws, pendingAgentRef, currentAgent, isSpeaking, msgCount,
                  serverResp, cancelledUpTo, conversation, deltasHandled,
                  requested >>
  /\ UNCHANGED << playerVars, recorderVars >>

\* addToConversation with error entries left out of the log.
addToConversationNoErrors(role, content) ==
  conversation' =
    IF role = "error"
    THEN conversation
    ELSE Append(conversation,
                [role |-> role, content |-> content, agent |-> currentAgent])

\* addToConversation(role, content): the entry's agent is the one
\* currentAgentRef holds, the agent of the last render.
addToConversation(role, content) ==
  conversation' =
    Append(conversation,
           [role |-> role, content |-> content, agent |-> currentAgent])

\* errorMsg of the error case: the error text, or 'Unknown error'.
ErrorMsg(m) == IF m.delta = << >> THEN "Unknown error" ELSE m.delta[1]

\* updateLastAssistantMessage that always appends a new entry.
updateLastAssistantMessageAppendOnly(delta) ==
  conversation' =
    Append(conversation,
           [role |-> "assistant", content |-> delta, agent |-> currentAgent])

\* updateLastAssistantMessage(delta)
updateLastAssistantMessage(delta) ==
  conversation' =
    IF conversation # << >> /\ conversation[Len(conversation)].role = "assistant"
    THEN [conversation EXCEPT ![Len(conversation)].content = @ \o delta]
    ELSE Append(conversation,
                [role |-> "assistant", content |-> delta, agent |-> currentAgent])

\* prev.findLast(m => m.role === 'user'), as an index: 0 when there is none.
findLastUser(prev) ==
  IF \E i \in 1..Len(prev) : prev[i].role = "user"
  THEN CHOOSE i \in 1..Len(prev) :
         /\ prev[i].role = "user"
         /\ \A j \in (i + 1)..Len(prev) : prev[j].role # "user"
  ELSE 0

\* updateLastUserMessage(transcript)
updateLastUserMessage(transcript) ==
  conversation' =
    [ i \in 1..Len(conversation) |->
        IF i = findLastUser(conversation)
        THEN [conversation[i] EXCEPT !.content = transcript]
        ELSE conversation[i] ]

\* String.prototype.trim on a text held as a sequence of pieces: blank
\* pieces at either end are dropped.
RECURSIVE trim(_)
trim(text) ==
  IF text = << >> THEN text
  ELSE IF Head(text) = " " THEN trim(Tail(text))
  ELSE IF text[Len(text)] = " " THEN trim(SubSeq(text, 1, Len(text) - 1))
  ELSE text

\* handleOpenAIEvent(event); an item created is a user item with input_audio
\* content.
handleOpenAIEvent(event) ==
  CASE event = << >> ->
         UNCHANGED << isSpeaking, conversation >>
    [] event # << >> /\ event[1] = "conversation.item.created" ->
         /\ addToConversation("user", << "[Listening...]" >>)
         /\ UNCHANGED isSpeaking
    [] event # << >>
         /\ event[1] = "conversation.item.input_audio_transcription.completed" ->
         /\ IF Tail(event) # << >>
            THEN updateLastUserMessage(trim(Tail(event)))
            ELSE UNCHANGED conversation
         /\ UNCHANGED isSpeaking
    [] event # << >> /\ event[1] = "response.done" ->
         /\ isSpeaking' = FALSE
         /\ UNCHANGED conversation
    [] OTHER ->
         UNCHANGED << isSpeaking, conversation >>

\* The body of the effect on [lastMessage], for message m.
HandleMessage(m) ==
  CASE m.type = "connected" ->
         /\ currentAgent' = m.agent
         /\ addToConversation("system", << "Connected to", m.agent >>)
         /\ dirty' = FALSE
         /\ UNCHANGED << playerVars, isSpeaking >>
    [] m.type = "agent_switched" ->
         /\ currentAgent' = m.agent
         /\ addToConversation("system", << "Switched to", m.agent >>)
         /\ dirty' = FALSE
         /\ UNCHANGED << playerVars, isSpeaking >>
    [] IsAudioDelta(m) ->
         /\ playAudio(m.delta, m.n)
         /\ isSpeaking' = TRUE
         /\ UNCHANGED << currentAgent, dirty, conversation >>
    [] m.type = "transcript_delta" /\ m.delta # << >> ->
         /\ updateLastAssistantMessage(m.delta)
         /\ UNCHANGED << playerVars, currentAgent, isSpeaking, dirty >>
    [] m.type = "user_transcript" /\ m.delta # << >> ->
         /\ updateLastUserMessage(m.delta)
         /\ UNCHANGED << playerVars, currentAgent, isSpeaking, dirty >>
    [] m.type = "openai_event" ->
         /\ handleOpenAIEvent(m.delta)
         /\ UNCHANGED << playerVars, currentAgent, dirty >>
    [] m.type = "error" ->
         /\ addToConversation("error", << "Error:", ErrorMsg(m) >>)
         /\ UNCHANGED << playerVars, currentAgent, isSpeaking, dirty >>
    [] OTHER ->
         UNCHANGED << playerVars, currentAgent, isSpeaking, dirty, conversation >>

\* React runs the effect on [lastMessage] after a render in which it changed.
MessageEffect ==
  /\ effectPending
  /\ effectPending' = FALSE
  /\ HandleMessage(lastMessage)
  /\ deltasOwed' = IF IsAudioDelta(lastMessage) THEN deltasOwed - 1 ELSE deltasOwed
  /\ doneSinceDelta' = (doneSinceDelta /\ ~IsAudioDelta(lastMessage))
  /\ deltasHandled' =
       IF lastMessage.type = "transcript_delta"
       THEN deltasHandled \o lastMessage.delta
       ELSE deltasHandled
  /\ op' = "effect"
  /\ UNCHANGED << codecVars, refVars >>
  /\ sent' = << >>
  /\ UNCHANGED << ws, inbox, lastMessage, pendingAgentRef, msgCount, serverResp,
                  cancelledUpTo, requested >>
  /\ UNCHANGED << pendingOpens, subs, mediaStreamRef, audioContextRef,
                  sourceRef, processorRef, hasAudioDataRef, recIsRecording,
                  isRecording, nextSub, startCount, frameCount,
                  lastCommitDirty, stopped, lastFailAt >>

\* handleConnectAgent keeping the agent already pending, if there is one.
handleConnectAgentKeepFirst(agentId) ==
  /\ IF ~isConnected
     THEN /\ pendingAgentRef' =
               IF pendingAgentRef = "" THEN agentId ELSE pendingAgentRef
          /\ connect
          /\ sent' = << >>
     ELSE /\ sendMessage(Msg("connect_agent", << >>, agentId, 0))
          /\ UNCHANGED << pendingAgentRef, ws >>
  /\ requested' = agentId
  /\ op' = "handleConnectAgent"
  /\ AppRender
  /\ UNCHANGED codecVars
  /\ UNCHANGED << inbox, lastMessage, effectPending, currentAgent, isSpeaking,
                  msgCount, serverResp, cancelledUpTo, deltasOwed,
                  doneSinceDelta, conversation, deltasHandled >>
  /\ UNCHANGED << playerVars, recorderVars >>

\* handleConnectAgent(agentId)
handleConnectAgent(agentId) ==
  /\ IF ~isConnected
     THEN /\ pendingAgentRef' = agentId
          /\ connect
          /\ sent' = << >>
     ELSE /\ sendMessage(Msg("connect_agent", << >>, agentId, 0))
          /\ UNCHANGED << pendingAgentRef, ws >>
  /\ requested' = agentId
  /\ op' = "handleConnectAgent"
  /\ AppRender
  /\ UNCHANGED codecVars
  /\ UNCHANGED << inbox, lastMessage, effectPending, currentAgent, isSpeaking,
                  msgCount, serverResp, cancelledUpTo, deltasOwed,
                  doneSinceDelta, conversation, deltasHandled >>
  /\ UNCHANGED << playerVars, recorderVars >>

\* handleSwitchAgent setting the bound agent at once, without the
\* agent_switched confirmation.
handleSwitchAgentOptimistic(agentId) ==
  /\ sendMessage(Msg("switch_agent", << >>, agentId, 0))
  /\ currentAgent' = agentId
  /\ op' = "handleSwitchAgent"
  /\ UNCHANGED << codecVars, refVars >>
  /\ UNCHANGED << ws, inbox, lastMessage, effectPending, pendingAgentRef,
                  isSpeaking, msgCount, serverResp, cancelledUpTo, deltasOwed,
                  doneSinceDelta, conversation, deltasHandled, requested >>
  /\ UNCHANGED << playerVars, recorderVars >>

\* handleSwitchAgent(agentId)
handleSwitchAgent(agentId) ==
  /\ sendMessage(Msg("switch_agent", << >>, agentId, 0))
  /\ op' = "handleSwitchAgent"
  /\ UNCHANGED << codecVars, refVars >>
  /\ UNCHANGED << ws, inbox, lastMessage, effectPending, pendingAgentRef,
                  currentAgent, isSpeaking, msgCount, serverResp,
                  cancelledUpTo, deltasOwed, doneSinceDelta, conversation,
                  deltasHandled, requested >>
  /\ UNCHANGED << playerVars, recorderVars >>

\* AgentSelector's handleAgentClick(agentId): selects when no agent is bound,
\* switches when another agent is bound, does nothing on the bound agent.
handleAgentClick(agentId) ==
  IF currentAgent = ""
  THEN handleConnectAgent(agentId)
  ELSE IF currentAgent # agentId
       THEN handleSwitchAgent(agentId)
       ELSE /\ op' = "handleAgentClick"
            /\ sent' = << >>
            /\ UNCHANGED << playerVars, sessionVars, recorderVars, codecVars,
                            refVars >>

\* handleClearConversation()
handleClearConversation ==
  /\ conversation' = << >>
  /\ deltasHandled' = << >>
  /\ op' = "handleClearConversation"
  /\ sent' = << >>
  /\ UNCHANGED << codecVars, refVars >>
  /\ UNCHANGED << ws, inbox, lastMessage, effectPending, pendingAgentRef,
                  currentAgent, isSpeaking, msgCount, serverResp, cancelledUpTo,
                  deltasOwed, doneSinceDelta, requested >>
  /\ UNCHANGED << playerVars, recorderVars >>

\* handleCancelResponse with the flush moved inside the test of isSpeaking.
handleCancelResponseGuardedFlush ==
  /\ IF isSpeaking
     THEN /\ sendMessage(Msg("cancel", << >>, "", 0))
          /\ cancelledUpTo' = serverResp
          /\ serverResp' = serverResp + 1
          /\ stopAudio
     ELSE /\ sent' = << >>
          /\ UNCHANGED << cancelledUpTo, serverResp >>
          /\ UNCHANGED playerVars
  /\ isSpeaking' = FALSE
  /\ op' = "handleCancelResponse"
  /\ UNCHANGED << codecVars, refVars >>
  /\ UNCHANGED << ws, inbox, lastMessage, effectPending, pendingAgentRef,
                  currentAgent, msgCount, deltasOwed, doneSinceDelta,
                  conversation, deltasHandled, requested >>
  /\ UNCHANGED recorderVars

\* handleCancelResponse().  A cancel that is sent cancels every response the
\* server has begun; what the server sends later belongs to a later one.
handleCancelResponse ==
  /\ IF isSpeaking
     THEN /\ sendMessage(Msg("cancel", << >>, "", 0))
          /\ cancelledUpTo' = serverResp
          /\ serverResp' = serverResp + 1
     ELSE /\ sent' = << >>
          /\ UNCHANGED << cancelledUpTo, serverResp >>
  /\ stopAudio
  /\ isSpeaking' = FALSE
  /\ op' = "handleCancelResponse"
  /\ UNCHANGED << codecVars, refVars >>
  /\ UNCHANGED << ws, inbox, lastMessage, effectPending, pendingAgentRef,
                  currentAgent, msgCount, deltasOwed, doneSinceDelta,
                  conversation, deltasHandled, requested >>
  /\ UNCHANGED recorderVars

\* --------------------------------------------------------- useAudioRecorder
\* startRecording(), up to its await of getUserMedia.
startRecording == pendingOpens' = pendingOpens + 1

\* getUserMedia resolves: the rest of startRecording's try block runs.
MicOpenOk ==
  /\ pendingOpens > 0
  /\ pendingOpens' = pendingOpens - 1
  /\ nextSub' = nextSub + 1
  /\ mediaStreamRef' = nextSub + 1
  /\ hasAudioDataRef' = FALSE
  /\ audioContextRef' = nextSub + 1
  /\ sourceRef' = nextSub + 1
  /\ processorRef' = nextSub + 1
  /\ subs' = subs \cup { nextSub + 1 }
  /\ recIsRecording' = TRUE
  /\ op' = "micOpen"
  /\ statusAtStart' = ws
  /\ UNCHANGED << codecVars, onAudioDataRef, isConnectedRef >>
  /\ sent' = << >>
  /\ UNCHANGED << isRecording, startCount, frameCount, dirty, lastCommitDirty,
                  stopped, lastFailAt >>
  /\ UNCHANGED << playerVars, sessionVars >>

\* MicOpenFail with setIsRecording(true) called before the await.
MicOpenFailRecording ==
  /\ pendingOpens > 0
  /\ pendingOpens' = pendingOpens - 1
  /\ lastFailAt' = startCount
  /\ recIsRecording' = TRUE
  /\ op' = "micFail"
  /\ UNCHANGED << codecVars, refVars >>
  /\ sent' = << >>
  /\ UNCHANGED << subs, mediaStreamRef, audioContextRef, sourceRef,
                  processorRef, hasAudioDataRef, isRecording, nextSub,
                  startCount, frameCount, dirty, lastCommitDirty, stopped >>
  /\ UNCHANGED << playerVars, sessionVars >>

\* getUserMedia rejects: the catch block logs and alerts.
MicOpenFail ==
  /\ pendingOpens > 0
  /\ pendingOpens' = pendingOpens - 1
  /\ lastFailAt' = startCount
  /\ op' = "micFail"
  /\ UNCHANGED << codecVars, refVars >>
  /\ sent' = << >>
  /\ UNCHANGED << subs, mediaStreamRef, audioContextRef, sourceRef,
                  processorRef, hasAudioDataRef, recIsRecording, isRecording,
                  nextSub, startCount, frameCount, dirty, lastCommitDirty,
                  stopped >>
  /\ UNCHANGED << playerVars, sessionVars >>

\* handleAudioData holding back every odd frame, as a sender that batches
\* frames in pairs would.
handleAudioDataBatched(n) ==
  IF isConnectedRef /\ n % 2 = 0
  THEN sendMessage(Msg("audio", << >>, "", n))
  ELSE sent' = << >>

\* handleAudioData(base64), the callback onAudioDataRef holds.
handleAudioData(n) ==
  IF isConnectedRef
  THEN sendMessage(Msg("audio", << >>, "", n))
  ELSE sent' = << >>

\* processor.onaudioprocess of live subscription s.
OnAudioProcess(s) ==
  /\ s \in subs
  /\ frameCount < MaxFrames
  /\ frameCount' = frameCount + 1
  /\ hasAudioDataRef' = TRUE
  /\ dirty' = TRUE
  /\ IF onAudioDataRef = "handleAudioData"
     THEN handleAudioData(frameCount + 1)
     ELSE sent' = << >>
  /\ op' = "frame"
  /\ UNCHANGED << codecVars, refVars >>
  /\ UNCHANGED << pendingOpens, subs, mediaStreamRef, audioContextRef,
                  sourceRef, processorRef, recIsRecording, isRecording,
                  nextSub, startCount, lastCommitDirty, stopped, lastFailAt >>
  /\ UNCHANGED << playerVars, sessionVars >>

\* stopRecording(): tears down what the four refs hold.
stopRecording ==
  /\ subs' = subs \ { processorRef, sourceRef, audioContextRef, mediaStreamRef }
  /\ processorRef' = 0
  /\ sourceRef' = 0
  /\ audioContextRef' = 0
  /\ mediaStreamRef' = 0
  /\ recIsRecording' = FALSE

\* handleStartRecording()
handleStartRecording ==
  /\ startCount < MaxStarts
  /\ startCount' = startCount + 1
  /\ startRecording
  /\ isRecording' = TRUE
  /\ stopped' = FALSE
  /\ op' = "handleStartRecording"
  /\ UNCHANGED << codecVars, refVars >>
  /\ sent' = << >>
  /\ UNCHANGED << subs, mediaStreamRef, audioContextRef, sourceRef,
                  processorRef, hasAudioDataRef, recIsRecording, nextSub,
                  frameCount, dirty, lastCommitDirty, lastFailAt >>
  /\ UNCHANGED << playerVars, sessionVars >>

\* handleStopRecording()
handleStopRecording ==
  /\ stopRecording
  /\ isRecording' = FALSE
  /\ IF hasAudioDataRef
     THEN /\ sendMessage(Msg("commit_audio", << >>, "", 0))
          /\ lastCommitDirty' = dirty
          /\ dirty' = FALSE
     ELSE /\ sent' = << >>
          /\ UNCHANGED << lastCommitDirty, dirty >>
  /\ stopped' = TRUE
  /\ op' = "handleStopRecording"
  /\ UNCHANGED << codecVars, refVars >>
  /\ UNCHANGED << pendingOpens, hasAudioDataRef, nextSub, startCount,
                  frameCount, lastFailAt >>
  /\ UNCHANGED << playerVars, sessionVars >>

\* ------------------------------------------------------- the capture codec
\* A frame of any length at any rate is in the resampler.
ResamplerInit ==
  /\ AppInit
  /\ inputLength \in 0..MaxFrameLen
  /\ sampleRate \in SampleRates
  /\ pcmLength = 0
  /\ srcReads = << >>
  /\ inputData = << >>
  /\ pcmData = << >>
  /\ resampled = [rate |-> 0, data |-> << >>]
  /\ pcmBuffer = << >>
  /\ base64 = << >>
  /\ decodedBytes = [ok |-> TRUE, bytes |-> << >>]

\* onaudioprocess, lines 52-57: the length of pcmData for the frame and the
\* indices of the frame the interpolation reads for it.
ResampleFrame ==
  /\ op = "init"
  /\ pcmLength' =
       IF sampleRate # TARGET_SAMPLE_RATE
       THEN newLength(inputLength, sampleRate, TARGET_SAMPLE_RATE)
       ELSE inputLength
  /\ srcReads' =
       IF sampleRate # TARGET_SAMPLE_RATE
       THEN SourceReads(inputLength, sampleRate, TARGET_SAMPLE_RATE)
       ELSE << >>
  /\ op' = "resample"
  /\ sent' = << >>
  /\ UNCHANGED << inputLength, sampleRate, inputData, pcmData, resampled,
                  pcmBuffer, base64, decodedBytes >>
  /\ UNCHANGED << playerVars, sessionVars, recorderVars, refVars >>

ResamplerNext == ResampleFrame

ResamplerSpec == ResamplerInit /\ [][ResamplerNext]_vars

\* A frame of any finite samples, captured at the target rate.
IdentityInit ==
  /\ AppInit
  /\ inputData \in SeqsUpTo(SampleValues, MaxSamples)
  /\ inputLength = Len(inputData)
  /\ sampleRate = TARGET_SAMPLE_RATE
  /\ pcmLength = 0
  /\ srcReads = << >>
  /\ pcmData = << >>
  /\ resampled = [rate |-> 0, data |-> << >>]
  /\ pcmBuffer = << >>
  /\ base64 = << >>
  /\ decodedBytes = [ok |-> TRUE, bytes |-> << >>]

\* onaudioprocess, lines 52-57: pcmData for the frame.
ConvertFrame ==
  /\ op = "init"
  /\ pcmData' =
       IF sampleRate # TARGET_SAMPLE_RATE
       THEN resampleAndConvert(inputData, sampleRate, TARGET_SAMPLE_RATE)
       ELSE floatTo16BitPCM(inputData)
  /\ pcmLength' = Len(pcmData')
  /\ op' = "convert"
  /\ sent' = << >>
  /\ UNCHANGED << inputLength, sampleRate, srcReads, inputData, resampled,
                  pcmBuffer, base64, decodedBytes >>
  /\ UNCHANGED << playerVars, sessionVars, recorderVars, refVars >>

\* resampleAndConvert called on the frame with fromRate = toRate = rate.
ResampleEqualRates(rate) ==
  /\ op = "convert"
  /\ resampled' = [rate |-> rate, data |-> resampleAndConvert(inputData, rate, rate)]
  /\ op' = "identity"
  /\ sent' = << >>
  /\ UNCHANGED << inputLength, sampleRate, pcmLength, srcReads, inputData,
                  pcmData, pcmBuffer, base64, decodedBytes >>
  /\ UNCHANGED << playerVars, sessionVars, recorderVars, refVars >>

IdentityNext ==
  \/ ConvertFrame
  \/ \E rate \in SampleRates : ResampleEqualRates(rate)

IdentitySpec == IdentityInit /\ [][IdentityNext]_vars

\* A buffer of any bytes is handed to the encoder.
Base64Init ==
  /\ AppInit
  /\ inputLength = 0
  /\ sampleRate = TARGET_SAMPLE_RATE
  /\ pcmLength = 0
  /\ srcReads = << >>
  /\ inputData = << >>
  /\ pcmData = << >>
  /\ resampled = [rate |-> 0, data |-> << >>]
  /\ pcmBuffer \in Buffers
  /\ base64 = << >>
  /\ decodedBytes = [ok |-> TRUE, bytes |-> << >>]

\* onaudioprocess, line 60: the text of the buffer.
EncodeBuffer ==
  /\ op = "init"
  /\ base64' = arrayBufferToBase64(pcmBuffer)
  /\ op' = "encode"
  /\ sent' = << >>
  /\ UNCHANGED << inputLength, sampleRate, pcmLength, srcReads, inputData,
                  pcmData, resampled, pcmBuffer, decodedBytes >>
  /\ UNCHANGED << playerVars, sessionVars, recorderVars, refVars >>

\* playAudio, lines 24-29: atob and the copy of the character codes.
DecodeText ==
  /\ op = "encode"
  /\ decodedBytes' = atob(base64)
  /\ op' = "decode"
  /\ sent' = << >>
  /\ UNCHANGED << inputLength, sampleRate, pcmLength, srcReads, inputData,
                  pcmData, resampled, pcmBuffer, base64 >>
  /\ UNCHANGED << playerVars, sessionVars, recorderVars, refVars >>

Base64Next == EncodeBuffer \/ DecodeText

Base64Spec == Base64Init /\ [][Base64Next]_vars

\* ------------------------------------------------------------ the program
TransportNext ==
  \/ \E a \in Agents : handleAgentClick(a)
  \/ WsOpen
  \/ WsClose

\* The session and the playback queue over the transport.
SessionNext ==
  \/ TransportNext
  \/ \E m \in ServerMessages : ServerSend(m)
  \/ WsOnMessage
  \/ MessageEffect
  \/ handleCancelResponse
  \/ \E d \in drains : SourceFinish(d)
  \/ \E d \in drains : OnEnded(d)

\* The capture pipeline over the transport.
RecorderNext ==
  \/ TransportNext
  \/ handleStartRecording
  \/ handleStopRecording
  \/ MicOpenOk
  \/ MicOpenFail
  \/ \E s \in subs : OnAudioProcess(s)

Next == SessionNext \/ RecorderNext

Spec == Init /\ [][Next]_vars

SessionSpec == Init /\ [][SessionNext]_vars

\* One response streamed to the App: the transport and the message effect.
ResponseNext ==
  \/ TransportNext
  \/ \E m \in ResponseMessages : ServerSendUpTo(m, MaxEvents)
  \/ WsOnMessage
  \/ MessageEffect

ResponseSpec == Init /\ [][ResponseNext]_vars

\* The conversation log under the transcript of a turn.
TranscriptNext ==
  \/ TransportNext
  \/ \E m \in TranscriptMessages : ServerSendUpTo(m, MaxTranscript)
  \/ WsOnMessage
  \/ MessageEffect
  \/ handleClearConversation

TranscriptSpec == Init /\ [][TranscriptNext]_vars

RecorderSpec == Init /\ [][RecorderNext]_vars

\* ------------------------------------------------------------ properties
Ids(q) == { q[i].id : i \in 1..Len(q) }

StartedIds == { started[i] : i \in 1..Len(started) }

\* The ids of the pushed segments that hold at least one sample, in order.
HasSamples(p) == p.samples > 0

PlayablePushed ==
  LET r == SelectSeq(pushed, HasSamples) IN [i \in 1..Len(r) |-> r[i].id]

IsPrefix(a, b) == Len(a) <= Len(b) /\ a = SubSeq(b, 1, Len(a))

\* C1: under every interleaving of playAudio, onended and stopAudio, at most
\* one segment is rendering at any time.
C1_AtMostOneRendering == Cardinality(Rendering) <= 1

\* C2: in a run with no flush the segments start rendering in the order they
\* were pushed and none is left out: what has started is a prefix of the
\* playable segments pushed, and all of them once no drain loop is pending.
C2_StartedIsPushed ==
  ~flushed =>
    /\ IsPrefix(started, PlayablePushed)
    /\ drains = {} => started = PlayablePushed

\* C3: stopAudio, from any state, leaves no segment rendering, the backlog
\* empty and the queue Idle, and no segment it discarded ever starts.
C3_FlushStopsEverything ==
  /\ op = "stopAudio" =>
       /\ Rendering = {}
       /\ audioQueueRef = << >>
       /\ ~isProcessingRef
       /\ ~isPlaying
  /\ discarded \cap StartedIds = {}

\* C4: once a response is cancelled, none of its audio_delta chunks is
\* rendering, whether it was queued at the cancel or arrived after it.
C4_NoStaleAudio == \A d \in Rendering : d.resp \notin 1..cancelledUpTo

\* C5: handleCancelResponse sends a cancel message exactly when isSpeaking
\* holds at the call, and in every case leaves the backlog empty, the queue
\* Idle and isSpeaking false, with no inbound message needed.
C5_CancelIsLocal ==
  [][ op' = "handleCancelResponse" =>
        /\ isSpeaking => sent' = << Msg("cancel", << >>, "", 0) >>
        /\ ~isSpeaking => sent' = << >>
        /\ audioQueueRef' = << >>
        /\ ~isProcessingRef'
        /\ ~isPlaying'
        /\ ~isSpeaking' ]_vars

\* C5 witness: a cancel was sent and flushed a backlog that held a segment.
C5_Witness ==
  /\ op = "handleCancelResponse"
  /\ sent # << >>
  /\ discarded # {}
  /\ audioQueueRef = << >>

\* C6: a commit_audio is sent only if a capture frame arrived since the last
\* commit_audio or bind/switch.
C6_CommitOnlyWhenDirty ==
  (op = "handleStopRecording" /\ sent # << >>) => lastCommitDirty

\* C7: every non-empty audio_delta received is handed to playAudio exactly
\* once: when the message effect has run for the latest message, none is owed.
C7_EveryDeltaEnqueued == ~effectPending => deltasOwed = 0

\* C8: whenever the transport is closed, no segment is rendering and the
\* backlog is empty.
C8_DisconnectFlushes ==
  ws = "closed" => (Rendering = {} /\ audioQueueRef = << >>)

\* C9: playback never gets stuck: whenever a segment waits in the backlog, a
\* drain loop is pending that will dequeue and render it.
C9_NeverStuck == audioQueueRef # << >> => drains # {}

\* C10: after stopRecording has returned and until the next startRecording,
\* no capture frame is handled.
C10_NoFrameAfterStop == op = "frame" => ~stopped

\* C11: at most one input-device subscription is live at any time: a
\* startRecording issued while an earlier one is pending or active opens no
\* second one, and none is leaked by having its handles overwritten.
C11_AtMostOneSubscription == Cardinality(subs) <= 1

\* C12: each capture frame handled produces exactly one chunk, handed to the
\* callback within that frame's handler: while connected the step sends one
\* audio message carrying that frame, so the audio messages are sent in
\* frame order, one per frame; while not connected it sends nothing.
C12_OneMessagePerFrame ==
  [][ op' = "frame" =>
        /\ frameCount' = frameCount + 1
        /\ isConnected => sent' = << Msg("audio", << >>, "", frameCount') >>
        /\ ~isConnected => sent' = << >> ]_vars

\* C12 witness: the second frame was handled while connected and sent.
C12_Witness ==
  /\ op = "frame"
  /\ frameCount = 2
  /\ sent = << Msg("audio", << >>, "", 2) >>

\* C13: a connect_agent is sent only over an open transport.  Called while
\* not connected, handleConnectAgent opens the transport and sends nothing;
\* when the transport opens, one connect_agent is sent for the agent last
\* requested, and none if none is pending (none is resent on a later open).
\* Called while connected it sends the request at once and leaves the
\* transport alone.  The bound agent is not set by the request or the open,
\* only by the connected confirmation, to the agent it names.
C13_ConnectAgent ==
  [][ /\ (sent' # << >> /\ sent'[1].type = "connect_agent") =>
           /\ ws' = "open"
           /\ sent' = << Msg("connect_agent", << >>, requested', 0) >>
           /\ pendingAgentRef' = ""
      /\ op' = "handleConnectAgent" =>
           /\ currentAgent' = currentAgent
           /\ isConnected => (ws' = ws /\ Len(sent') = 1)
           /\ ~isConnected => (ws' = "connecting" /\ sent' = << >>)
      /\ op' = "open" =>
           /\ currentAgent' = currentAgent
           /\ pendingAgentRef # "" => Len(sent') = 1
           /\ pendingAgentRef = "" => sent' = << >>
      /\ (op' = "effect" /\ lastMessage.type = "connected") =>
           currentAgent' = lastMessage.agent ]_vars

\* C13 witness: the transport has opened and the pending request was sent.
C13_Witness ==
  /\ op = "open"
  /\ sent = << Msg("connect_agent", << >>, requested, 0) >>
  /\ pendingAgentRef = ""

\* C14: handleSwitchAgent sends one switch_agent request and leaves the
\* connection status, the playback queue, the speaking flag, the conversation
\* log and the bound agent as they were; the bound agent changes only when a
\* confirmation is handled, and on agent_switched to the agent confirmed.
C14_SwitchInPlace ==
  [][ /\ op' = "handleSwitchAgent" =>
           /\ \E a \in Agents : sent' = << Msg("switch_agent", << >>, a, 0) >>
           /\ UNCHANGED << ws, playerVars, isSpeaking, conversation,
                           currentAgent >>
      /\ (op' = "effect" /\ lastMessage.type = "agent_switched") =>
           /\ currentAgent' = lastMessage.agent
           /\ UNCHANGED << ws, playerVars, isSpeaking >>
      /\ currentAgent' # currentAgent =>
           /\ op' = "effect"
           /\ lastMessage.type \in { "connected", "agent_switched" } ]_vars

\* C14 witness: a switch was requested over the open transport while a
\* segment of the bound agent's response was rendering.
C14_Witness ==
  /\ op = "handleSwitchAgent"
  /\ ws = "open"
  /\ sent # << >>
  /\ sent[1].agent # currentAgent
  /\ isSpeaking
  /\ Rendering # {}

\* C15: the bound agent exists only while the connection is open: in the
\* state a transport close leaves, currentAgent is null.
C15_NoAgentWhenClosed == op = "close" => currentAgent = ""

\* C16: an inbound error message is not fatal: handling it appends exactly
\* one entry, of role error, to the conversation log and leaves the
\* connection status, the bound agent, the speaking flag and the playback
\* queue unchanged.
C16_ErrorNotFatal ==
  [][ (op' = "effect" /\ lastMessage.type = "error") =>
        /\ Len(conversation') = Len(conversation) + 1
        /\ SubSeq(conversation', 1, Len(conversation)) = conversation
        /\ conversation'[Len(conversation')].role = "error"
        /\ UNCHANGED << ws, currentAgent, isSpeaking, playerVars >> ]_vars

\* C16 witness: an error was handled over the open transport while a segment
\* was rendering and the speaking flag was set.
C16_Witness ==
  /\ op = "effect"
  /\ lastMessage.type = "error"
  /\ ws = "open"
  /\ isSpeaking
  /\ Rendering # {}
  /\ conversation # << >>
  /\ conversation[Len(conversation)].role = "error"

\* round(a / b) for a >= 0, b > 0, halves rounded up.
RoundHalfUp(a, b) == (2 * a + b) \div (2 * b)

\* C17: for every input length and every rate other than the target rate the
\* resampler's output has exactly round(n * Rout / Rin) samples, and a frame
\* of 4096 samples at 48000 Hz yields 2048 samples at 24000 Hz.
C17_LengthLaw ==
  /\ (op = "resample" /\ sampleRate # TARGET_SAMPLE_RATE) =>
       pcmLength = RoundHalfUp(inputLength * TARGET_SAMPLE_RATE, sampleRate)
  /\ newLength(4096, 48000, TARGET_SAMPLE_RATE) = 2048

\* C18: the base64 transport encoding round-trips exactly: the text the
\* chunked encoder returns is the encoding of the whole buffer at once, and
\* decoding it (atob and the copy of the character codes) returns the bytes
\* of the buffer.
C18_Base64RoundTrip ==
  /\ op \in { "encode", "decode" } => base64 = btoa(fromCharCode(pcmBuffer))
  /\ op = "decode" => decodedBytes = [ok |-> TRUE, bytes |-> pcmBuffer]

\* C18 witness: a buffer that spans three chunks, the last one partial, was
\* encoded and decoded.
C18_Witness ==
  /\ op = "decode"
  /\ Len(pcmBuffer) > 2 * chunkSize
  /\ Len(pcmBuffer) % chunkSize # 0
  /\ decodedBytes.bytes = pcmBuffer

\* Every segment pushed holds at least one sample.
AllPlayable == \A i \in 1..Len(pushed) : HasSamples(pushed[i])

\* C19: a chunk that fails to decode in playAudio is dropped: the call
\* leaves the backlog, the active source, the drain loops and the
\* Idle/Playing state exactly as they were, and the segments that did decode
\* still start in the order pushed, all of them once the drain is over.
C19_DecodeFailureDropped ==
  /\ [][ op' = "playAudioDropped" =>
           UNCHANGED << audioQueueRef, currentSourceRef, isProcessingRef,
                        isPlaying, drains, nextId >> ]_vars
  /\ []( (~flushed /\ AllPlayable) =>
           /\ IsPrefix(started, PlayablePushed)
           /\ drains = {} => started = PlayablePushed )

\* C19 witness: a chunk was dropped while one segment was rendering and
\* another waited in the backlog.
C19_Witness ==
  /\ op = "playAudioDropped"
  /\ Rendering # {}
  /\ audioQueueRef # << >>
  /\ isPlaying

\* C20: a startRecording whose getUserMedia is rejected leaves the capture
\* pipeline as it was, and when it was the only start so far, inactive: not
\* recording, no subscription to deliver frames, no stream, context, source
\* or processor held, no open pending.
C20_FailedStartInactive ==
  /\ [][ op' = "micFail" =>
           UNCHANGED << subs, mediaStreamRef, audioContextRef, sourceRef,
                        processorRef, recIsRecording, hasAudioDataRef >> ]_vars
  /\ []( (op = "micFail" /\ startCount = 1) =>
           /\ ~recIsRecording
           /\ subs = {}
           /\ mediaStreamRef = 0
           /\ audioContextRef = 0
           /\ sourceRef = 0
           /\ processorRef = 0
           /\ pendingOpens = 0 )

\* C20 witness: the first start failed; a second start was then called,
\* opened the only subscription there is, and a frame of it was handled.
C20_Witness ==
  /\ op = "frame"
  /\ lastFailAt = 1
  /\ startCount = 2
  /\ nextSub = 1
  /\ subs = { 1 }
  /\ recIsRecording

\* C21: a capture pipeline started once delivers every frame to the callback
\* of the latest render, and that callback acts on the connection status of
\* the latest render: between steps the refs hold what the App last passed,
\* and a frame sends its chunk exactly when the transport is open at the time
\* the frame is handled, whatever the status was when capture started.
C21_FreshestCallback ==
  /\ [][ op' = "frame" =>
           /\ onAudioDataRef = "handleAudioData"
           /\ (sent' # << >>) <=> isConnected ]_vars
  /\ [](isConnectedRef = isConnected)

\* C21 witness: the only subscription ever opened was opened while the
\* transport was closed, and a later frame was sent over the transport that
\* opened in the meantime.
C21_Witness ==
  /\ op = "frame"
  /\ nextSub = 1
  /\ statusAtStart = "closed"
  /\ sent = << Msg("audio", << >>, "", frameCount) >>

\* C22: once a response.done has been received and the message effect has
\* run since, isSpeaking is false, and it stays false until an audio_delta
\* is handled, whatever else arrived in between.
C22_DoneClearsSpeaking == (doneSinceDelta /\ ~effectPending) => ~isSpeaking

\* C23: when the rates differ, resampleAndConvert reads one pair of source
\* indices for each of its newLength output samples, and both indices of
\* every pair lie in 0 .. float32Array.length - 1.
C23_ReadsInRange ==
  (op = "resample" /\ sampleRate # TARGET_SAMPLE_RATE) =>
    /\ Len(srcReads) = pcmLength
    /\ \A k \in 1..Len(srcReads) :
         /\ srcReads[k].floor \in 0..(inputLength - 1)
         /\ srcReads[k].ceil \in 0..(inputLength - 1)

\* C23 witness: a frame was upsampled and the last output sample read the
\* frame's last sample twice, its srcCeil held back by the clamp.
C23_Witness ==
  /\ op = "resample"
  /\ sampleRate < TARGET_SAMPLE_RATE
  /\ pcmLength > inputLength
  /\ srcReads[pcmLength] = [floor |-> inputLength - 1, ceil |-> inputLength - 1]

\* C24: a frame captured at the target rate is encoded by floatTo16BitPCM,
\* sample for sample, and resampleAndConvert called on the same frame with
\* equal rates returns the same Int16 values, at every rate.
C24_IdentityPath ==
  /\ op \in { "convert", "identity" } =>
       /\ Len(pcmData) = Len(inputData)
       /\ \A k \in 1..Len(inputData) : pcmData[k] = floatTo16BitPCM(inputData)[k]
  /\ op = "identity" =>
       /\ Len(resampled.data) = Len(pcmData)
       /\ \A k \in 1..Len(pcmData) : resampled.data[k] = pcmData[k]

\* C24 witness: a frame with a sample below -1, one inside the range and one
\* above 1 went through the interpolation at 44100 -> 44100 and came out as
\* the direct encoder's values.
C24_Witness ==
  /\ op = "identity"
  /\ resampled.rate = 44100
  /\ inputData = << -5, 1, 5 >>
  /\ resampled.data = << -32768, 8191, 32767 >>

\* The contents of the assistant entries of a log, joined in log order.
RECURSIVE AssistantText(_)
AssistantText(log) ==
  IF log = << >> THEN << >>
  ELSE IF Head(log).role = "assistant"
       THEN Head(log).content \o AssistantText(Tail(log))
       ELSE AssistantText(Tail(log))

\* C25: handling a transcript_delta that carries text extends the last entry
\* of the log in place when that entry is an assistant entry and only then,
\* and otherwise appends one new assistant entry holding the delta; every
\* earlier entry stays as it was.  At all times the contents of the assistant
\* entries, joined in log order, are the transcript deltas handled since the
\* log was last cleared, joined in the order they were handled.
C25_TranscriptLog ==
  /\ [][ (op' = "effect" /\ lastMessage.type = "transcript_delta"
            /\ lastMessage.delta # << >>) =>
           LET n == Len(conversation) IN
           IF n > 0 /\ conversation[n].role = "assistant"
           THEN /\ Len(conversation') = n
                /\ conversation'[n] =
                     [conversation[n] EXCEPT !.content = @ \o lastMessage.delta]
                /\ SubSeq(conversation', 1, n - 1) = SubSeq(conversation, 1, n - 1)
           ELSE /\ Len(conversation') = n + 1
                /\ conversation'[n + 1].role = "assistant"
                /\ conversation'[n + 1].content = lastMessage.delta
                /\ SubSeq(conversation', 1, n) = conversation ]_vars
  /\ [](AssistantText(conversation) = deltasHandled)

\* C25 witness: a delta opened an assistant entry, a second one extended it,
\* a user item followed, and a third delta opened a second assistant entry
\* after it.
C25_Witness ==
  /\ op = "effect"
  /\ Len(conversation) = 3
  /\ conversation[1].role = "assistant"
  /\ Len(conversation[1].content) = 2
  /\ conversation[2].role = "user"
  /\ conversation[3].role = "assistant"
  /\ deltasHandled = conversation[1].content \o conversation[3].content

\* C26: between handler executions isProcessingRef agrees with the drain
\* state: while it is false no segment is rendering and the backlog is empty,
\* and while the backlog is non-empty the flag is set and a drain loop is
\* suspended that will dequeue it.
C26_FlagMatchesDrainState ==
  /\ ~isProcessingRef => (Rendering = {} /\ audioQueueRef = << >>)
  /\ audioQueueRef # << >> => (isProcessingRef /\ drains # {})

\* C27: a switch_agent is handed to sendMessage only while the transport is
\* open and an agent other than the requested one is bound, and selecting
\* the bound agent sends nothing.
C27_SwitchOnlyWhenConnected ==
  [][ /\ (sent' # << >> /\ sent'[1].type = "switch_agent") =>
           /\ isConnected
           /\ currentAgent # ""
           /\ sent'[1].agent # currentAgent
      /\ op' = "handleAgentClick" => sent' = << >> ]_vars

====
